---- MODULE Spec2Model ----
(***************************************************************************)
(* Model of src/backend/utils/pdf_utils.py: extract_text_from_pdf          *)
(* (DocumentReader), get_pdf_metadata (MetadataProbe),                     *)
(* extract_text_from_multiple_pdfs and extract_pdfs_with_metadata          *)
(* (BatchCoordinator), with the logger of logging_config.py as the         *)
(* diagnostic sink.                                                        *)
(*                                                                         *)
(* A path is a sequence of one-character strings; a text is a string.      *)
(* A Python value that may be None is a record [type, val].  The files on  *)
(* disk and what pypdf makes of them are the environment: a file is a      *)
(* record saying what stat(), PdfReader(), each page's extract_text() and  *)
(* reader.metadata do for it.                                              *)
(***************************************************************************)
EXTENDS Naturals, Sequences, FiniteSets, TLC

VARIABLES
    pdf_input,     \* the argument of the call: [kind, val]
    disk,          \* path -> file: the files the call finds
    pc,            \* position of the call
    idx,           \* number of list elements the running loop has consumed
    batch,         \* extract_text_from_multiple_pdfs: its dict `results`
    failed_files,  \* extract_text_from_multiple_pdfs: its list `failed_files`
    results,       \* extract_pdfs_with_metadata: its dict `results`
    raised,        \* the exception that left the call, or NoExc
    returned,      \* the value the call returned, or NoValue
    calls,         \* history: the collaborators invoked, in order
    log            \* the records the logger emitted, in order

vars == <<pdf_input, disk, pc, idx, batch, failed_files, results, raised,
          returned, calls, log>>

----------------------------------------------------------------------------
(* Bounds *)

MaxLen == 3

----------------------------------------------------------------------------
(* Python values *)

PyStr(s) == [type |-> "str", val |-> s]
PyNone == [type |-> "NoneType", val |-> "None"]
NoExc == [type |-> "none"]
Exc(t) == [type |-> t]
NoValue == [type |-> "novalue"]

\* str(e): the message of an exception, here its class name.
StrOfExc(e) == e.type

----------------------------------------------------------------------------
(* pathlib: Path(p).name *)

IndexOfSlash(s) ==
    IF \E k \in 1..Len(s) : s[k] = "/"
    THEN CHOOSE k \in 1..Len(s) : s[k] = "/" /\ \A j \in 1..(k-1) : s[j] # "/"
    ELSE Len(s) + 1

RECURSIVE PathParts(_)
PathParts(s) ==
    IF s = <<>> THEN <<>>
    ELSE LET k == IndexOfSlash(s)
             head == SubSeq(s, 1, k - 1)
             rest == SubSeq(s, k + 1, Len(s))
         IN  (IF head = <<>> \/ head = <<".">> THEN <<>> ELSE <<head>>)
             \o PathParts(rest)

PathName(s) ==
    LET p == PathParts(s) IN IF p = <<>> THEN <<>> ELSE p[Len(p)]

----------------------------------------------------------------------------
(* dict: insertion-ordered, a sequence of [key, value] *)

DictHas(d, k) == \E j \in 1..Len(d) : d[j].key = k

DictGet(d, k, default) ==
    IF DictHas(d, k)
    THEN d[CHOOSE j \in 1..Len(d) : d[j].key = k].value
    ELSE default

DictSetMoveToEnd(d, k, v) ==
    SelectSeq(d, LAMBDA e : e.key # k) \o <<[key |-> k, value |-> v]>>

DictSetAppendAlways(d, k, v) == Append(d, [key |-> k, value |-> v])

\* d[k] = v: an existing key keeps its position, a new key goes last.
DictSet(d, k, v) ==
    IF DictHas(d, k)
    THEN [j \in 1..Len(d) |->
            IF d[j].key = k THEN [key |-> k, value |-> v] ELSE d[j]]
    ELSE Append(d, [key |-> k, value |-> v])

DictKeys(d) == [j \in 1..Len(d) |-> d[j].key]

----------------------------------------------------------------------------
(* logging_config.setup_logger: level INFO, so DEBUG records are dropped *)

LevelNo(level) ==
    CASE level = "DEBUG" -> 10
      [] level = "INFO" -> 20
      [] level = "WARNING" -> 30
      [] level = "ERROR" -> 40

LoggerLevel == "INFO"

Ev(level, event, data) == [level |-> level, event |-> event, data |-> data]

\* What the logger keeps of a sequence of records.
Emit(events) == SelectSeq(events, LAMBDA e : LevelNo(e.level) >= LevelNo(LoggerLevel))

----------------------------------------------------------------------------
(* The environment: files, and what pypdf makes of them *)

Page(kind, val) == [kind |-> kind, val |-> val]

NoMetadata == [kind |-> "None", title |-> PyNone, author |-> PyNone, other |-> FALSE]
\* reader.metadata raises (an Info entry the parser cannot resolve).
BadMetadata == [kind |-> "PdfReadError", title |-> PyNone, author |-> PyNone, other |-> FALSE]
Info(title, author, other) ==
    [kind |-> "DocumentInformation", title |-> title, author |-> author, other |-> other]

File(stat, size, open, pages, metadata) ==
    [stat |-> stat, size |-> size, open |-> open, pages |-> pages, metadata |-> metadata]

Missing == File("FileNotFoundError", 0, "FileNotFoundError", <<>>, NoMetadata)
Corrupt == File("ok", 512, "PdfReadError", <<>>, NoMetadata)
DocA == File("ok", 3145728, "ok",
             <<Page("text", "one"), Page("none", ""), Page("text", "three")>>,
             Info(PyStr("Doc A"), PyStr("Ann"), TRUE))
Scan == File("ok", 131072, "ok", <<>>, NoMetadata)
BadPage == File("ok", 70000, "ok", <<Page("text", "p"), Page("error", "ValueError")>>,
                Info(PyStr("T"), PyNone, FALSE))

BadInfo == File("ok", 20000, "ok", <<Page("text", "i")>>, BadMetadata)

\* The files of the coordinator's runs.
DiskFiles == {Missing, Corrupt, DocA, Scan, BadPage, BadInfo}

\* The files of the direct calls of get_pdf_metadata.
StatOutcomes == {"ok", "FileNotFoundError", "PermissionError"}
OpenOutcomes == {"ok", "FileNotFoundError", "PdfReadError", "IsADirectoryError"}
Titles == {PyNone, PyStr("Doc A")}
Authors == {PyNone, PyStr("Ann")}
Metadatas == {NoMetadata, BadMetadata} \cup {Info(t, a, o) : t \in Titles, a \in Authors, o \in BOOLEAN}
ProbeFiles ==
    {File(st, sz, op, pg, md) :
        st \in StatOutcomes, sz \in {131072, 3145728}, op \in OpenOutcomes,
        pg \in {<<>>, <<Page("text", "one")>>}, md \in Metadatas}

Paths == { <<"a">>, <<"x", "/", "a">>, <<"b">> }
ProbePaths == Paths \cup { <<>>, <<"a", "/">>, <<"/">>, <<"x", "/", ".">> }

----------------------------------------------------------------------------
(* extract_text_from_pdf *)

Result(exc, value, events) == [raised |-> exc, value |-> value, events |-> events]

\* The except clause that handles an exception of class t; each logs and re-raises.
ReaderHandler(t) ==
    CASE t = "FileNotFoundError" -> "PDF file not found"
      [] t = "PdfReadError" -> "Corrupted PDF or read error"
      [] OTHER -> "Unexpected error extracting PDF"

\* The loop over reader.pages, from page k on.
RECURSIVE ReadPages(_, _, _, _)
ReadPages(pages, k, text, events) ==
    IF k > Len(pages) THEN Result(NoExc, text, events)
    ELSE IF pages[k].kind = "error"
         THEN Result(Exc(pages[k].val), text, events)
         ELSE LET page_text == IF pages[k].kind = "text" THEN pages[k].val ELSE ""
              IN  ReadPages(pages, k + 1, text \o page_text \o "\n",
                            Append(events, Ev("DEBUG", "page", Len(page_text))))

extract_text_from_pdf_swallow(pdf_path, file) ==
    LET start == <<Ev("INFO", "extract_start", pdf_path)>>
        r == IF file.open # "ok" THEN Result(Exc(file.open), "", start)
             ELSE ReadPages(file.pages, 1, "", start)
    IN  IF r.raised # NoExc
        THEN Result(NoExc, "",
                    Append(r.events, Ev("ERROR", ReaderHandler(r.raised.type), pdf_path)))
        ELSE Result(NoExc, r.value,
                    Append(r.events, Ev("INFO", "extract_done", Len(r.value))))

extract_text_from_pdf(pdf_path, file) ==
    LET start == <<Ev("INFO", "extract_start", pdf_path)>>
        r == IF file.open # "ok" THEN Result(Exc(file.open), "", start)
             ELSE ReadPages(file.pages, 1, "", start)
    IN  IF r.raised # NoExc
        THEN Result(r.raised, "",
                    Append(r.events, Ev("ERROR", ReaderHandler(r.raised.type), pdf_path)))
        ELSE Result(NoExc, r.value,
                    Append(r.events, Ev("INFO", "extract_done", Len(r.value))))

----------------------------------------------------------------------------
(* get_pdf_metadata *)

BytesPerMB == 1048576

\* round(st_size / (1024 * 1024), 2), in hundredths of a megabyte (ties to even).
RoundedSizeMB(size) ==
    LET q == (size * 100) \div BytesPerMB
        r == (size * 100) % BytesPerMB
    IN  IF 2 * r > BytesPerMB \/ (2 * r = BytesPerMB /\ q % 2 = 1) THEN q + 1 ELSE q

\* bool(reader.metadata): None and an empty dictionary are false.
Truthy(md) ==
    md.kind # "None" /\ (md.title # PyNone \/ md.author # PyNone \/ md.other)

MetadataRaises(md) == md.kind \notin {"None", "DocumentInformation"}

Degraded(pdf_path, e) == [filename |-> PathName(pdf_path), error |-> StrOfExc(e)]

get_pdf_metadata_raising(pdf_path, file) ==
    LET start == <<Ev("DEBUG", "metadata_start", pdf_path)>>
    IN  IF file.stat # "ok" THEN Result(Exc(file.stat), NoValue, start)
        ELSE IF file.open # "ok" THEN Result(Exc(file.open), NoValue, start)
        ELSE IF MetadataRaises(file.metadata)
             THEN Result(Exc(file.metadata.kind), NoValue, start)
        ELSE Result(NoExc,
                    [filename |-> PathName(pdf_path),
                     pages |-> Len(file.pages),
                     file_size_mb |-> RoundedSizeMB(file.size),
                     title |-> IF Truthy(file.metadata) THEN file.metadata.title
                               ELSE PyStr("Unknown"),
                     author |-> IF Truthy(file.metadata) THEN file.metadata.author
                                ELSE PyStr("Unknown")],
                    Append(start, Ev("DEBUG", "metadata", pdf_path)))

get_pdf_metadata(pdf_path, file) ==
    LET start == <<Ev("DEBUG", "metadata_start", pdf_path)>>
        fail(e) == Result(NoExc, Degraded(pdf_path, e),
                          Append(start, Ev("ERROR", "Failed to get metadata", pdf_path)))
    IN  IF file.stat # "ok" THEN fail(Exc(file.stat))
        ELSE IF file.open # "ok" THEN fail(Exc(file.open))
        ELSE IF MetadataRaises(file.metadata) THEN fail(Exc(file.metadata.kind))
        ELSE Result(NoExc,
                    [filename |-> PathName(pdf_path),
                     pages |-> Len(file.pages),
                     file_size_mb |-> RoundedSizeMB(file.size),
                     title |-> IF Truthy(file.metadata) THEN file.metadata.title
                               ELSE PyStr("Unknown"),
                     author |-> IF Truthy(file.metadata) THEN file.metadata.author
                                ELSE PyStr("Unknown")],
                    Append(start, Ev("DEBUG", "metadata", pdf_path)))

----------------------------------------------------------------------------
(* extract_text_from_multiple_pdfs *)

Call(who, path) == [who |-> who, path |-> path]

\* Lines 73-76: the opening record and the empty accumulators.
BatchStartEvents(pdf_paths) == <<Ev("INFO", "batch_start", Len(pdf_paths))>>

BatchIterationNoCatch(b, ff, pdf_path, file) ==
    LET filename == PathName(pdf_path)
        r == extract_text_from_pdf(pdf_path, file)
    IN  IF r.raised = NoExc
        THEN [batch |-> DictSet(b, filename, r.value), failed_files |-> ff,
              raised |-> NoExc,
              events |-> Append(r.events, Ev("INFO", "processed", filename))]
        ELSE [batch |-> b, failed_files |-> ff, raised |-> r.raised, events |-> r.events]

BatchIterationBlankOnFailure(b, ff, pdf_path, file) ==
    LET filename == PathName(pdf_path)
        r == extract_text_from_pdf(pdf_path, file)
    IN  IF r.raised = NoExc
        THEN [batch |-> DictSet(b, filename, r.value), failed_files |-> ff,
              raised |-> NoExc,
              events |-> Append(r.events, Ev("INFO", "processed", filename))]
        ELSE [batch |-> DictSet(b, filename, ""),
              failed_files |-> Append(ff, <<filename, StrOfExc(r.raised)>>),
              raised |-> NoExc,
              events |-> Append(r.events, Ev("ERROR", "failed", filename))]

\* Lines 78-90: one iteration of the loop, its try and its except.
BatchIteration(b, ff, pdf_path, file) ==
    LET filename == PathName(pdf_path)
        r == extract_text_from_pdf(pdf_path, file)
    IN  IF r.raised = NoExc
        THEN [batch |-> DictSet(b, filename, r.value), failed_files |-> ff,
              raised |-> NoExc,
              events |-> Append(r.events, Ev("INFO", "processed", filename))]
        ELSE [batch |-> b,
              failed_files |-> Append(ff, <<filename, StrOfExc(r.raised)>>),
              raised |-> NoExc,
              events |-> Append(r.events, Ev("ERROR", "failed", filename))]

\* Lines 93-95: the summary, and the warning when something failed.
BatchSummaryEvents(b, ff, pdf_paths) ==
    <<Ev("INFO", "batch_complete", [successful |-> Len(b), total |-> Len(pdf_paths)])>>
    \o (IF ff # <<>> THEN <<Ev("WARNING", "failed_files", ff)>> ELSE <<>>)

----------------------------------------------------------------------------
(* extract_pdfs_with_metadata *)

DispatchAnySequence(kind) ==
    CASE kind = "str" -> "single_read"
      [] kind \in {"list", "tuple"} -> "batch_read"
      [] OTHER -> "raise_type_error"

\* Lines 157, 163, 170: the isinstance tests.
DispatchOf(kind) ==
    CASE kind = "str" -> "single_read"
      [] kind = "list" -> "batch_read"
      [] OTHER -> "raise_type_error"

MergeIterationSkipMissing(res, b, pdf_path, file) ==
    LET filename == PathName(pdf_path)
        m == get_pdf_metadata(pdf_path, file)
    IN  IF DictHas(b, filename)
        THEN [results |-> DictSet(res, filename,
                                  [text |-> DictGet(b, filename, ""), meta |-> m.value]),
              raised |-> m.raised, events |-> m.events]
        ELSE [results |-> res, raised |-> m.raised, events |-> m.events]

\* Lines 165-169: one iteration of the merge loop.
MergeIteration(res, b, pdf_path, file) ==
    LET filename == PathName(pdf_path)
        text == DictGet(b, filename, "")
        m == get_pdf_metadata(pdf_path, file)
    IN  [results |-> IF m.raised = NoExc
                     THEN DictSet(res, filename, [text |-> text, meta |-> m.value])
                     ELSE res,
         raised |-> m.raised, events |-> m.events]

----------------------------------------------------------------------------
(* The calls *)

Lists == UNION {[1..n -> Paths] : n \in 0..MaxLen}

\* The paths an argument names: the call looks at no other file.
Named(v) ==
    CASE v.kind = "str" -> {v.val}
      [] v.kind = "list" -> {v.val[j] : j \in 1..Len(v.val)}
      [] OTHER -> {}

Tuples == {<<>>, << <<"a">> >>}

\* The argument: a str, a list of str, or something else (a tuple, an int, None).
IsInput(v) ==
    \/ \E p \in Paths : v = [kind |-> "str", val |-> p]
    \/ \E l \in Lists : v = [kind |-> "list", val |-> l]
    \/ \E l \in Tuples : v = [kind |-> "tuple", val |-> l]
    \/ \E k \in {"int", "NoneType"} : v = [kind |-> k, val |-> <<>>]

Init ==
    /\ IsInput(pdf_input)
    /\ disk \in [Named(pdf_input) -> DiskFiles]
    /\ pc = "start"
    /\ idx = 0
    /\ batch = <<>>
    /\ failed_files = <<>>
    /\ results = <<>>
    /\ raised = NoExc
    /\ returned = NoValue
    /\ calls = <<>>
    /\ log = <<>>

\* Line 156 and the isinstance tests; for a list, the entry of
\* extract_text_from_multiple_pdfs (lines 73-76).
Dispatch ==
    /\ pc = "start"
    /\ \E to \in {DispatchOf(pdf_input.kind)} :
           /\ pc' = IF to = "raise_type_error" THEN "raised" ELSE to
           /\ raised' = IF to = "raise_type_error" THEN Exc("TypeError") ELSE raised
           /\ log' = IF to = "batch_read"
                     THEN log \o Emit(BatchStartEvents(pdf_input.val))
                     ELSE log
    /\ UNCHANGED <<pdf_input, disk, idx, batch, failed_files, results, returned, calls>>

\* Lines 159-160: the single path reads; a failure leaves the call.
SingleRead ==
    /\ pc = "single_read"
    /\ \E r \in {extract_text_from_pdf(pdf_input.val, disk[pdf_input.val])} :
           /\ calls' = Append(calls, Call("DocumentReader", pdf_input.val))
           /\ log' = log \o Emit(r.events)
           /\ raised' = r.raised
           /\ pc' = IF r.raised = NoExc THEN "single_probe" ELSE "raised"
           /\ batch' = IF r.raised = NoExc
                       THEN <<[key |-> PathName(pdf_input.val), value |-> r.value]>>
                       ELSE batch
    /\ UNCHANGED <<pdf_input, disk, idx, failed_files, results, returned>>

\* Lines 161-162: the single path probes and stores its one entry.
SingleProbe ==
    /\ pc = "single_probe"
    /\ \E s \in {MergeIteration(results, batch, pdf_input.val, disk[pdf_input.val])} :
           /\ calls' = Append(calls, Call("MetadataProbe", pdf_input.val))
           /\ log' = log \o Emit(s.events)
           /\ results' = s.results
           /\ raised' = s.raised
           /\ pc' = IF s.raised = NoExc THEN "return" ELSE "raised"
    /\ UNCHANGED <<pdf_input, disk, idx, batch, failed_files, returned>>

\* Lines 78-90: the text pass takes the next list element.
BatchRead ==
    /\ pc = "batch_read"
    /\ idx < Len(pdf_input.val)
    /\ \E pdf_path \in {pdf_input.val[idx + 1]} :
       \E s \in {BatchIteration(batch, failed_files, pdf_path, disk[pdf_path])} :
           /\ calls' = Append(calls, Call("DocumentReader", pdf_path))
           /\ log' = log \o Emit(s.events)
           /\ batch' = s.batch
           /\ failed_files' = s.failed_files
           /\ raised' = s.raised
           /\ pc' = IF s.raised = NoExc THEN pc ELSE "raised"
           /\ idx' = idx + 1
    /\ UNCHANGED <<pdf_input, disk, results, returned>>

\* Lines 93-97: the text pass ends, logs its summary and returns its dict.
BatchSummary ==
    /\ pc = "batch_read"
    /\ idx = Len(pdf_input.val)
    /\ log' = log \o Emit(BatchSummaryEvents(batch, failed_files, pdf_input.val))
    /\ pc' = "merge"
    /\ idx' = 0
    /\ UNCHANGED <<pdf_input, disk, batch, failed_files, results, raised, returned, calls>>

\* Lines 165-169: the merge pass takes the next list element.
Merge ==
    /\ pc = "merge"
    /\ idx < Len(pdf_input.val)
    /\ \E pdf_path \in {pdf_input.val[idx + 1]} :
       \E s \in {MergeIteration(results, batch, pdf_path, disk[pdf_path])} :
           /\ calls' = Append(calls, Call("MetadataProbe", pdf_path))
           /\ log' = log \o Emit(s.events)
           /\ results' = s.results
           /\ raised' = s.raised
           /\ pc' = IF s.raised = NoExc THEN pc ELSE "raised"
           /\ idx' = idx + 1
    /\ UNCHANGED <<pdf_input, disk, batch, failed_files, returned>>

\* Line 172.
Return ==
    /\ \/ pc = "return"
       \/ pc = "merge" /\ idx = Len(pdf_input.val)
    /\ returned' = results
    /\ pc' = "returned"
    /\ UNCHANGED <<pdf_input, disk, idx, batch, failed_files, results, raised, calls, log>>

Next ==
    \/ Dispatch
    \/ SingleRead
    \/ SingleProbe
    \/ BatchRead
    \/ BatchSummary
    \/ Merge
    \/ Return

Spec == Init /\ [][Next]_vars

----------------------------------------------------------------------------
(* Direct calls of get_pdf_metadata *)

ProbeInit ==
    /\ \E p \in ProbePaths, f \in ProbeFiles :
          /\ pdf_input = [kind |-> "str", val |-> p]
          /\ disk = [q \in {p} |-> f]
    /\ pc = "probe"
    /\ idx = 0
    /\ batch = <<>>
    /\ failed_files = <<>>
    /\ results = <<>>
    /\ raised = NoExc
    /\ returned = NoValue
    /\ calls = <<>>
    /\ log = <<>>

\* Lines 120-146: the whole call.
Probe ==
    /\ pc = "probe"
    /\ \E m \in {get_pdf_metadata(pdf_input.val, disk[pdf_input.val])} :
           /\ calls' = Append(calls, Call("MetadataProbe", pdf_input.val))
           /\ log' = log \o Emit(m.events)
           /\ raised' = m.raised
           /\ returned' = m.value
           /\ pc' = IF m.raised = NoExc THEN "returned" ELSE "raised"
    /\ UNCHANGED <<pdf_input, disk, idx, batch, failed_files, results>>

ProbeNext == Probe

ProbeSpec == ProbeInit /\ [][ProbeNext]_vars

----------------------------------------------------------------------------
(* What the environment decides, stated apart from the code *)

\* The file name each path of the runs names.
Basename(p) ==
    CASE p = <<"a">> -> <<"a">>
      [] p = <<"x", "/", "a">> -> <<"a">>
      [] p = <<"b">> -> <<"b">>
      [] p = <<>> -> <<>>
      [] p = <<"a", "/">> -> <<"a">>
      [] p = <<"/">> -> <<>>
      [] p = <<"x", "/", ".">> -> <<"x">>

ReaderFails(f) == f.open # "ok" \/ \E k \in 1..Len(f.pages) : f.pages[k].kind = "error"

ReaderError(f) ==
    IF f.open # "ok" THEN f.open
    ELSE f.pages[CHOOSE k \in 1..Len(f.pages) :
                    /\ f.pages[k].kind = "error"
                    /\ \A j \in 1..(k-1) : f.pages[j].kind # "error"].val

ProbeFails(f) == f.stat # "ok" \/ f.open # "ok" \/ f.metadata.kind = "PdfReadError"

ProbeError(f) ==
    IF f.stat # "ok" THEN f.stat ELSE IF f.open # "ok" THEN f.open ELSE f.metadata.kind

IsList == pdf_input.kind = "list"
InputList == pdf_input.val
FileAt(j) == disk[InputList[j]]
NameAt(j) == Basename(InputList[j])

ReaderCalls(l) == [j \in 1..Len(l) |-> Call("DocumentReader", l[j])]
ProbeCalls(l) == [j \in 1..Len(l) |-> Call("MetadataProbe", l[j])]

IsPrefix(s, t) == Len(s) <= Len(t) /\ s = SubSeq(t, 1, Len(s))

RECURSIVE FirstOccurrences(_)
FirstOccurrences(names) ==
    IF names = <<>> THEN <<>>
    ELSE LET front == FirstOccurrences(SubSeq(names, 1, Len(names) - 1))
             last == names[Len(names)]
         IN  IF \E j \in 1..Len(front) : front[j] = last THEN front
             ELSE Append(front, last)

Count(seq, P(_)) == Cardinality({j \in 1..Len(seq) : P(seq[j])})

Summaries == SelectSeq(log, LAMBDA e : e.event = "batch_complete")
Warnings == SelectSeq(log, LAMBDA e : e.event = "failed_files")

----------------------------------------------------------------------------
(* Claims *)

\* C1: in batch mode the call ends by returning its BatchResult and never by
\* raising: no exception leaves the call, every state short of the return has
\* a next step whatever the reader and the probe do, and by the end of the
\* text pass DocumentReader was attempted on every list element, in order,
\* whatever failed before.
C1_BatchNeverRaises ==
    IsList =>
        /\ raised = NoExc
        /\ pc # "raised"
        /\ pc # "returned" => ENABLED Next
        /\ pc = "returned" => returned = results
        /\ pc \in {"merge", "returned"} =>
              IsPrefix(ReaderCalls(InputList), calls)

C1_Witness ==
    /\ IsList
    /\ pc = "returned"
    /\ Len(InputList) = 3
    /\ ReaderFails(FileAt(1))
    /\ ~ReaderFails(FileAt(3))
    /\ Len(failed_files) = 1
    /\ Len(returned) = 2

\* C2 (as claimed): in batch mode every identifier whose text extraction
\* failed appears in the BatchResult under its filename with text "" and with
\* the MetadataProbe result of that identifier, also when names repeat.
C2_FailedEntryIsBlankWithOwnMeta ==
    (IsList /\ pc = "returned") =>
        \A j \in 1..Len(InputList) :
            ReaderFails(FileAt(j)) =>
                /\ DictHas(returned, NameAt(j))
                /\ DictGet(returned, NameAt(j), NoValue).text = ""
                /\ DictGet(returned, NameAt(j), NoValue).meta
                      = get_pdf_metadata(InputList[j], FileAt(j)).value

\* The text a successful read of each file of the runs returns.
TextOf(f) ==
    CASE f = DocA -> "one\n\nthree\n"
      [] f = Scan -> ""
      [] f = BadInfo -> "i\n"

\* The positions of the list that name the same file as position j.
SameName(j) == {k \in 1..Len(InputList) : NameAt(k) = NameAt(j)}
Last(S) == CHOOSE k \in S : \A m \in S : m <= k

\* C2 (amended): in batch mode every identifier whose text extraction failed
\* appears in the BatchResult under its filename; the entry's metadata record
\* is the MetadataProbe result of the last identifier of the list with that
\* filename, and its text is "" unless an identifier with that filename was
\* read successfully, when it is the text of the last such identifier.  For
\* a filename that occurs once this is the claim as made.
C2_FailedEntryFollowsLastOfName ==
    (IsList /\ pc = "returned") =>
        \A j \in 1..Len(InputList) :
            ReaderFails(FileAt(j)) =>
                LET entry == DictGet(returned, NameAt(j), NoValue)
                    last == FileAt(Last(SameName(j)))
                    read == {k \in SameName(j) : ~ReaderFails(FileAt(k))}
                IN  /\ DictHas(returned, NameAt(j))
                    /\ entry.text = (IF read = {} THEN "" ELSE TextOf(FileAt(Last(read))))
                    /\ entry.meta.filename = NameAt(j)
                    /\ IF ProbeFails(last)
                       THEN entry.meta = [filename |-> NameAt(j), error |-> ProbeError(last)]
                       ELSE /\ DOMAIN entry.meta
                                = {"filename", "pages", "file_size_mb", "title", "author"}
                            /\ entry.meta.pages = Len(last.pages)

C2_Witness ==
    /\ IsList
    /\ pc = "returned"
    /\ Len(InputList) = 2
    /\ InputList[1] # InputList[2]
    /\ NameAt(1) = NameAt(2)
    /\ FileAt(1) = DocA
    /\ FileAt(2) = Missing
    /\ returned = <<[key |-> NameAt(2),
                     value |-> [text |-> "one\n\nthree\n",
                                meta |-> [filename |-> NameAt(2),
                                          error |-> "FileNotFoundError"]]]>>

\* C3 (as claimed): an identifier yields exactly one BatchResult entry unless
\* its text extraction failed, and then it yields none.
C3_FailedHasNoEntry ==
    (IsList /\ pc = "returned") =>
        \A j \in 1..Len(InputList) :
            IF ReaderFails(FileAt(j))
            THEN ~DictHas(returned, NameAt(j))
            ELSE Count(returned, LAMBDA e : e.key = NameAt(j)) = 1

\* The (filename, message) pairs of the elements of l whose read fails, in order.
RECURSIVE FailuresOf(_)
FailuresOf(l) ==
    IF l = <<>> THEN <<>>
    ELSE (IF ReaderFails(disk[Head(l)])
          THEN << <<Basename(Head(l)), ReaderError(disk[Head(l)])>> >>
          ELSE <<>>) \o FailuresOf(Tail(l))

\* C3 (amended): every identifier of a batch has exactly one BatchResult entry
\* under its filename, whether or not its text extraction failed; a failed
\* extraction is also recorded in the FailureLedger, which holds exactly the
\* failed identifiers in input order, and adds no key to the text mapping.
C3_EveryIdentifierHasOneEntry ==
    (IsList /\ pc = "returned") =>
        /\ \A j \in 1..Len(InputList) :
              Count(returned, LAMBDA e : e.key = NameAt(j)) = 1
        /\ failed_files = FailuresOf(InputList)
        /\ \A j \in 1..Len(batch) :
              \E k \in 1..Len(InputList) :
                  NameAt(k) = batch[j].key /\ ~ReaderFails(FileAt(k))

C3_Witness ==
    /\ IsList
    /\ pc = "returned"
    /\ Len(InputList) = 2
    /\ ReaderFails(FileAt(1))
    /\ ~ReaderFails(FileAt(2))
    /\ NameAt(1) # NameAt(2)
    /\ DictHas(returned, NameAt(1))
    /\ ~DictHas(batch, NameAt(1))
    /\ Len(failed_files) = 1

\* C4: for a non-empty list the BatchResult has as many entries as the input
\* has distinct filenames, whatever failed; equal filenames share one entry.
C4_OneEntryPerDistinctFilename ==
    (IsList /\ pc = "returned" /\ Len(InputList) > 0) =>
        Len(returned) = Cardinality({NameAt(j) : j \in 1..Len(InputList)})

C4_Witness ==
    /\ IsList
    /\ pc = "returned"
    /\ Len(InputList) = 3
    /\ InputList[1] # InputList[3]
    /\ NameAt(1) = NameAt(3)
    /\ ReaderFails(FileAt(1))
    /\ ProbeFails(FileAt(2))
    /\ Len(returned) = 2

\* C5: on the single-identifier path DocumentReader is called before
\* MetadataProbe; a reader failure leaves the call as that same exception,
\* with nothing returned and MetadataProbe not called; a reader success ends
\* in a mapping of exactly one entry, keyed by the filename.
C5_SinglePathPropagates ==
    pdf_input.kind = "str" =>
        LET p == pdf_input.val
        IN  /\ IsPrefix(calls, <<Call("DocumentReader", p), Call("MetadataProbe", p)>>)
            /\ (ReaderFails(disk[p]) /\ pc \notin {"start", "single_read"}) =>
                  /\ pc = "raised"
                  /\ raised = Exc(ReaderError(disk[p]))
                  /\ returned = NoValue
                  /\ calls = <<Call("DocumentReader", p)>>
            /\ (~ReaderFails(disk[p])) => pc # "raised"
            /\ pc = "returned" =>
                  /\ Len(returned) = 1
                  /\ returned[1].key = Basename(p)
                  /\ Len(calls) = 2

C5_Witness ==
    /\ pdf_input.kind = "str"
    /\ pc = "raised"
    /\ raised = Exc("PdfReadError")
    /\ calls = <<Call("DocumentReader", pdf_input.val)>>

\* C6: get_pdf_metadata never raises; when the size lookup or the parser fails
\* it returns exactly {filename, error}, and when both succeed it returns
\* exactly {filename, pages, file_size_mb, title, author}.
C6_ProbeNeverRaises ==
    /\ raised = NoExc
    /\ pc \in {"probe", "returned"}
    /\ pc = "returned" =>
          LET f == disk[pdf_input.val]
          IN  /\ returned.filename = Basename(pdf_input.val)
              /\ IF ProbeFails(f)
                 THEN /\ DOMAIN returned = {"filename", "error"}
                      /\ returned.error = ProbeError(f)
                 ELSE DOMAIN returned =
                         {"filename", "pages", "file_size_mb", "title", "author"}

C6_Witness ==
    /\ pc = "returned"
    /\ disk[pdf_input.val].stat = "FileNotFoundError"
    /\ returned = [filename |-> <<"a">>, error |-> "FileNotFoundError"]

\* C7 (as claimed): in an Ok metadata record title (author) is "Unknown" when
\* the parser reports no metadata object and when the object has no title
\* (author); otherwise it is the reported string; so both are always strings.
C7_TitleAuthorAreStrings ==
    (pc = "returned" /\ ~ProbeFails(disk[pdf_input.val])) =>
        LET md == disk[pdf_input.val].metadata
        IN  /\ returned.title.type = "str"
            /\ returned.author.type = "str"
            /\ returned.title = (IF md.kind = "None" \/ md.title = PyNone
                                 THEN PyStr("Unknown") ELSE md.title)
            /\ returned.author = (IF md.kind = "None" \/ md.author = PyNone
                                  THEN PyStr("Unknown") ELSE md.author)

\* C8: a str goes to the single-identifier path, a list to the batch path, and
\* anything else raises TypeError with no collaborator called and nothing
\* returned.
C8_Dispatch ==
    pc # "start" =>
        /\ pdf_input.kind = "str" =>
              /\ pc \in {"single_read", "single_probe", "return", "returned", "raised"}
              /\ log = <<>> \/ log[1].event = "extract_start"
        /\ pdf_input.kind = "list" =>
              /\ pc \in {"batch_read", "merge", "returned"}
              /\ log # <<>> /\ log[1].event = "batch_start"
        /\ pdf_input.kind \notin {"str", "list"} =>
              /\ pc = "raised"
              /\ raised = Exc("TypeError")
              /\ calls = <<>>
              /\ returned = NoValue

C8_Witness ==
    /\ pdf_input.kind = "int"
    /\ pc = "raised"
    /\ raised = Exc("TypeError")
    /\ calls = <<>>

\* C9: in batch mode the collaborators are called in the order reader on each
\* element in input order, then probe on each element in input order; the
\* summary is logged after the last reader call and before the first probe
\* call; and the keys of the BatchResult are the filenames in order of first
\* occurrence.
C9_TwoPassOrder ==
    IsList =>
        /\ IsPrefix(calls, ReaderCalls(InputList) \o ProbeCalls(InputList))
        /\ Len(Summaries) = (IF pc \in {"merge", "returned"} THEN 1 ELSE 0)
        /\ Len(calls) > Len(InputList) => pc \in {"merge", "returned"}
        /\ pc \in {"start", "batch_read"} => Len(calls) = idx
        /\ pc = "merge" =>
              /\ Len(calls) = Len(InputList) + idx
              /\ DictKeys(results)
                    = FirstOccurrences([j \in 1..idx |-> NameAt(j)])
        /\ pc = "returned" =>
              /\ calls = ReaderCalls(InputList) \o ProbeCalls(InputList)
              /\ DictKeys(returned)
                    = FirstOccurrences([j \in 1..Len(InputList) |-> NameAt(j)])

C9_Witness ==
    /\ IsList
    /\ pc = "returned"
    /\ Len(InputList) = 3
    /\ NameAt(1) = NameAt(3)
    /\ NameAt(1) # NameAt(2)
    /\ InputList[1] # InputList[3]
    /\ ReaderFails(FileAt(1))
    /\ DictKeys(returned) = <<NameAt(1), NameAt(2)>>
    /\ Len(calls) = 6

\* C10 (as claimed): the successful count of the batch summary is the number
\* of input identifiers whose extraction succeeded, so that it and the number
\* of FailureLedger entries add up to the total; and the warning is logged
\* exactly when an extraction failed.
C10_SummaryAccounts ==
    (IsList /\ pc \in {"merge", "returned"}) =>
        /\ Len(Summaries) = 1
        /\ Summaries[1].data.successful
              = Count(InputList, LAMBDA p : ~ReaderFails(disk[p]))
        /\ Summaries[1].data.successful + Len(failed_files) = Summaries[1].data.total
        /\ Summaries[1].data.total = Len(InputList)
        /\ (Len(Warnings) = 1) <=> (\E j \in 1..Len(InputList) : ReaderFails(FileAt(j)))

====
